---- MODULE Spec2Model ----
(***************************************************************************)
(* Verification model of the distributed coverage planner's cell          *)
(* re-optimisation engine:                                                 *)
(*   - ChiOptimizer.run_iterations / dft_recursion /                       *)
(*     compute_pairwise_optimal      (src/optimizer/chi_optimizer.py)      *)
(*   - the older dft_recursion       (src/reopt_recursion.py)              *)
(*   - the older compute_pairwise_optimal (src/pairwise_reopt.py)          *)
(*   - polygon_split and its helpers (src/polygon_split.py)                *)
(*                                                                         *)
(* Geometry of the driver level.  The region is the strip                  *)
(* [0,StripW] x [0,1].  A cut is a segment from (a,0) to (b,1), written    *)
(* <<a,b>>.  A cell polygon is the convex region between a left cut l and  *)
(* a right cut r, written <<l,r>>.  This family is closed under splitting  *)
(* along any chord joining two integer boundary points, which is what the  *)
(* pairwise optimiser enumerates.                                          *)
(***************************************************************************)
EXTENDS Integers, Sequences, FiniteSets, TLC

(* ------------------------------ bounds -------------------------------- *)
StripW == 8
NumCells == 5
MaxIter == 2
NumOracles == 3
NumSamples == 4

(* sys.float_info.max, the initial running minimum of the search *)
FloatMax == 1000000

CellIds == 0 .. (NumCells - 1)

(* --------------------------- small helpers ---------------------------- *)
Max2(a, b) == IF a >= b THEN a ELSE b

Min2(a, b) == IF a <= b THEN a ELSE b

Abs(a) == IF a >= 0 THEN a ELSE 0 - a

(* ------------------------ strip geometry types ------------------------ *)
Cuts == (0 .. StripW) \X (0 .. StripW)

CutLeq(c, d) == c[1] <= d[1] /\ c[2] <= d[2]

(* a valid simple polygon of positive area *)
IsValidPoly(P) == CutLeq(P[1], P[2]) /\ P[1] # P[2]

Polys == {P \in Cuts \X Cuts : IsValidPoly(P)}

(* twice the area of the polygon between two cuts *)
Area2(P) == (P[2][1] - P[1][1]) + (P[2][2] - P[1][2])

SitePoints == {<<0, 0>>, <<StripW, 1>>}

(* ---------------------------- cost oracle ----------------------------- *)
(* compute_chi is an external pure function of (polygon, site).  Three     *)
(* oracles stand for it: coverage length plus travel to the farthest       *)
(* corner, travel only, and one that is not monotone under cuts.           *)
Dist(p, s) == Abs(p[1] - s[1]) + Abs(p[2] - s[2])

Far(P, s) ==
    Max2(Max2(Dist(<<P[1][1], 0>>, s), Dist(<<P[2][1], 0>>, s)),
         Max2(Dist(<<P[2][2], 1>>, s), Dist(<<P[1][2], 1>>, s)))

cost_func(o, P, s) ==
    CASE o = 1 -> Area2(P) + Far(P, s)
      [] o = 2 -> Far(P, s)
      [] OTHER -> (3 * Area2(P) + 5 * Far(P, s) + P[1][1] * P[2][2]) % 7

(* ------------------------- decomposition access ----------------------- *)
(* Decomposition.__getitem__ yields (polygon, site); __setitem__ stores a  *)
(* polygon under a cell id and keeps the cell's site.                      *)
SetPolygon(d, id, P) == [d EXCEPT ![id] = P]

(* compute_adjacency: entry (i,j) is TRUE when cells i and j share a        *)
(* boundary edge of positive length, "None" otherwise and on the diagonal. *)
SharesEdge(A, B) == A[2] = B[1] \/ B[2] = A[1]

compute_adjacency(d) ==
    [i \in CellIds |-> [j \in CellIds |->
        IF i # j /\ SharesEdge(d[i], d[j]) THEN "True" ELSE "None"]]

(* ------------------------- shapely predicates ------------------------- *)
(* polygon_a.touches(polygon_b): boundaries meet, interiors do not *)
Touches(A, B) ==
    \/ CutLeq(A[2], B[1]) /\ (A[2][1] = B[1][1] \/ A[2][2] = B[1][2])
    \/ CutLeq(B[2], A[1]) /\ (B[2][1] = A[1][1] \/ B[2][2] = A[1][2])

(* type of polygon_a.intersection(polygon_b) for touching polygons *)
IntersectionType(A, B) == IF SharesEdge(A, B) THEN "LineString" ELSE "Point"

(* polygon_a.union(polygon_b) for two polygons sharing a cut *)
PolygonUnion(A, B) == IF A[2] = B[1] THEN <<A[1], B[2]>> ELSE <<B[1], A[2]>>

(* ---------------------- search space of the optimiser ----------------- *)
(* The integer points of the exterior ring of a polygon, counter-clockwise *)
(* from the bottom-left corner: along the bottom, then back along the top. *)
BottomPts(U) == [k \in 1 .. (U[2][1] - U[1][1] + 1) |-> <<U[1][1] + k - 1, 0>>]

TopPts(U) == [k \in 1 .. (U[2][2] - U[1][2] + 1) |-> <<U[2][2] - (k - 1), 1>>]

RingPts(U) == BottomPts(U) \o TopPts(U)

(* poly_exterior.interpolate(distance): the ring point at an arc position, *)
(* positions being counted in ring points and wrapping at the ring's end   *)
Interpolate(U, distance) == RingPts(U)[(distance % Len(RingPts(U))) + 1]

(* linspace(0, poly_exterior.length, num_samples): num_samples positions   *)
(* from 0 to the full length, both included, so that the ring's first      *)
(* point is sampled again as the last one; positions are taken to the      *)
(* ring point they fall on or have just passed                             *)
SearchSpace(U) ==
    [k \in 1 .. NumSamples |->
        Interpolate(U, ((k - 1) * Len(RingPts(U))) \div (NumSamples - 1))]

(* ------------------- polygon_split on a strip polygon ----------------- *)
NoResult == [ok |-> FALSE, polys |-> <<>>]

(* the cut a chord between a bottom and a top point stands for *)
ChordCut(p, q) == IF p[2] = 0 THEN <<p[1], q[1]>> ELSE <<q[1], p[1]>>

(* type of extrLineLR.intersection(splitLineLS): the chord is a single     *)
(* point, lies along the boundary, or meets it in its two end points       *)
CommonPtsType(U, p, q) ==
    IF p = q THEN "Point"
    ELSE IF p[2] = q[2] THEN "LineString"
    ELSE IF ChordCut(p, q) = U[1] \/ ChordCut(p, q) = U[2] THEN "LineString"
    ELSE "MultiPoint"

(* polygon_split(polygon_union, LineString(cut_edge)).  The exterior ring  *)
(* starts at the bottom-left corner.  When a cut point is the ring's first *)
(* vertex the ring falls into two pieces and the first mask is the part    *)
(* right of the chord; otherwise it falls into three, the first and last   *)
(* piece are merged, and the first mask is the part left of the chord.     *)
SplitOverlapping(U, p, q) ==
    IF CommonPtsType(U, p, q) # "MultiPoint" THEN NoResult
    ELSE [ok |-> TRUE, polys |-> <<U, <<ChordCut(p, q), U[2]>>>>]

SplitUnion(U, p, q) ==
    IF CommonPtsType(U, p, q) # "MultiPoint" THEN NoResult
    ELSE LET c == ChordCut(p, q)
             left == <<U[1], c>>
             right == <<c, U[2]>>
         IN  IF c[1] = U[1][1]
             THEN [ok |-> TRUE, polys |-> <<right, left>>]
             ELSE [ok |-> TRUE, polys |-> <<left, right>>]

(* -------------------- compute_pairwise_optimal ------------------------ *)
(* score of one successful candidate: the lower of the two assignments *)
CandidateScore(o, res, sA, sB) ==
    LET chi_a0 == cost_func(o, res[1], sA)
        chi_a1 == cost_func(o, res[2], sA)
        chi_b0 == cost_func(o, res[1], sB)
        chi_b1 == cost_func(o, res[2], sB)
    IN  Min2(Max2(chi_a0, chi_b1), Max2(chi_a1, chi_b0))

(* a replacement test under which the first of equal candidates stays *)
ReplacesIfLower(score, best) == score < best

(* does a candidate replace the running best *)
Replaces(score, best) == score <= best

(* one iteration of the loop over product(search_space, repeat=2): acc     *)
(* holds min_max_chi_final and the index of min_candidate (0: unbound)     *)
SearchStep(o, U, ss, sA, sB, idx, acc) ==
    LET poly_split == SplitUnion(U, ss[((idx - 1) \div Len(ss)) + 1],
                                    ss[((idx - 1) % Len(ss)) + 1])
        min_max_chi == CandidateScore(o, poly_split.polys, sA, sB)
    IN  IF ~poly_split.ok THEN acc
        ELSE IF Replaces(min_max_chi, acc.final)
             THEN [final |-> min_max_chi, cand |-> idx]
             ELSE acc

(* the iterations lo..hi of that loop in row-major order; the range is    *)
(* halved, and the first half evaluated before the second is entered, only *)
(* to keep the evaluation shallow                                          *)
RECURSIVE Search(_, _, _, _, _, _, _, _)
Search(o, U, ss, sA, sB, lo, hi, acc) ==
    IF lo > hi THEN acc
    ELSE IF lo = hi THEN SearchStep(o, U, ss, sA, sB, lo, acc)
    ELSE LET mid == (lo + hi) \div 2
             first == Search(o, U, ss, sA, sB, lo, mid, acc)
         IN  IF first.cand >= 0
             THEN Search(o, U, ss, sA, sB, mid + 1, hi, first)
             ELSE first

(* a test that ends the search only when no candidate was valid *)
NoValidCut(init_max_chi, min_max_chi_final) == min_max_chi_final = FloatMax

(* a test that also ends the search when the best cut only equals the     *)
(* present one                                                             *)
NotStrictlyBetter(init_max_chi, min_max_chi_final) == init_max_chi <= min_max_chi_final

(* the test that ends the search without a result *)
NoBetterCut(init_max_chi, min_max_chi_final) == init_max_chi < min_max_chi_final

(* not polygon, not position: an empty geometry is false *)
IsEmpty(g) == g = <<>>

(* polygon.is_simple: the two cuts do not cross inside the strip *)
IsSimplePoly(P) == CutLeq(P[1], P[2]) \/ CutLeq(P[2], P[1])

(* type of polygon_a.union(polygon_b) for touching polygons *)
UnionKind(A, B) == IF SharesEdge(A, B) THEN "Polygon" ELSE "MultiPolygon"

(* the tests at the head of compute_pairwise_optimal, in the order of the  *)
(* source: the warning of the first one that fails, or "pass"              *)
EntryTests(A, B, sA, sB) ==
    IF IsEmpty(A) \/ IsEmpty(B) THEN "empty polygon"
    ELSE IF IsEmpty(sA) \/ IsEmpty(sB) THEN "empty init pos"
    ELSE IF ~IsValidPoly(A) \/ ~IsValidPoly(B) THEN "invalid polygons"
    ELSE IF ~IsSimplePoly(A) \/ ~IsSimplePoly(B) THEN "nonsimple polygons"
    ELSE IF ~Touches(A, B) THEN "nontouching polys"
    ELSE IF IntersectionType(A, B) # "LineString" THEN "don't touch at an edge"
    ELSE IF ~IsValidPoly(PolygonUnion(A, B)) \/ ~IsSimplePoly(PolygonUnion(A, B))
         THEN "bad polygon"
    ELSE IF UnionKind(A, B) # "Polygon" THEN "non polygon"
    ELSE "pass"

(* how many cut candidates the loop over product(search_space, repeat=2)   *)
(* hands to polygon_split: the loop is entered only past the entry tests   *)
CandidatesEvaluated(A, B, sA, sB) ==
    IF EntryTests(A, B, sA, sB) # "pass" THEN 0
    ELSE Len(SearchSpace(PolygonUnion(A, B))) * Len(SearchSpace(PolygonUnion(A, B)))

compute_pairwise_optimal(o, A, B, sA, sB) ==
    IF EntryTests(A, B, sA, sB) # "pass" THEN NoResult
    ELSE LET U == PolygonUnion(A, B)
             ss == SearchSpace(U)
             n == Len(ss)
             init_max_chi == Max2(cost_func(o, A, sA), cost_func(o, B, sB))
             best == Search(o, U, ss, sA, sB, 1, n * n, [final |-> FloatMax, cand |-> 0])
         IN  IF NoBetterCut(init_max_chi, best.final) THEN NoResult
             ELSE SplitUnion(U, ss[((best.cand - 1) \div n) + 1],
                                ss[((best.cand - 1) % n) + 1])

(* ====================================================================== *)
(* polygon_split.py on polygons in canonical form: a polygon is            *)
(* <<exterior, holes>>, a ring is a sequence of integer points without the *)
(* closing point, a split line is a sequence of points.                    *)
(* ====================================================================== *)
GridMax == 4

GridPoints == (0 .. GridMax) \X (0 .. GridMax)

Vec(p, q) == <<q[1] - p[1], q[2] - p[2]>>

Cross(u, v) == u[1] * v[2] - u[2] * v[1]

Dot(u, v) == u[1] * v[1] + u[2] * v[2]

Orient(p, q, r) == Cross(Vec(p, q), Vec(p, r))

(* r lies on the closed segment pq *)
OnSegment(p, q, r) ==
    /\ Orient(p, q, r) = 0
    /\ Min2(p[1], q[1]) <= r[1] /\ r[1] <= Max2(p[1], q[1])
    /\ Min2(p[2], q[2]) <= r[2] /\ r[2] <= Max2(p[2], q[2])

(* the k-th edge of a ring, the last one closing it *)
RingEdge(ring, k) == <<ring[k], ring[(k % Len(ring)) + 1]>>

OnRing(ring, r) ==
    \E k \in 1 .. Len(ring) : OnSegment(RingEdge(ring, k)[1], RingEdge(ring, k)[2], r)

(* fractions num/den with den > 0, kept in lowest terms *)
RECURSIVE Gcd(_, _)
Gcd(a, b) == IF b = 0 THEN a ELSE Gcd(b, a % b)

Frac(num, den) ==
    LET n == IF den < 0 THEN 0 - num ELSE num
        d == Abs(den)
        g == Gcd(Abs(n), d)
    IN  <<n \div g, d \div g>>

FracLess(s, t) == s[1] * t[2] < t[1] * s[2]

FracLeq(s, t) == s[1] * t[2] <= t[1] * s[2]

FracMax(s, t) == IF FracLeq(s, t) THEN t ELSE s

FracMin(s, t) == IF FracLeq(s, t) THEN s ELSE t

(* How the segment ab (a # b) meets the segment pq (p # q): not at all, in *)
(* one point, or along a piece of positive length.  Positions are          *)
(* parameters along ab, 0 at a and 1 at b.                                 *)
SegMeet(a, b, p, q) ==
    LET ab == Vec(a, b)
        pq == Vec(p, q)
        d == Cross(ab, pq)
        tn == Cross(Vec(a, p), pq)
        un == Cross(Vec(a, p), ab)
    IN  IF d # 0
        THEN IF /\ (IF d > 0 THEN 0 <= tn /\ tn <= d ELSE d <= tn /\ tn <= 0)
                /\ (IF d > 0 THEN 0 <= un /\ un <= d ELSE d <= un /\ un <= 0)
             THEN [kind |-> "pt", lo |-> Frac(tn, d), hi |-> Frac(tn, d)]
             ELSE [kind |-> "none", lo |-> <<0, 1>>, hi |-> <<0, 1>>]
        ELSE IF un # 0
        THEN [kind |-> "none", lo |-> <<0, 1>>, hi |-> <<0, 1>>]
        ELSE LET tp == Frac(Dot(Vec(a, p), ab), Dot(ab, ab))
                 tq == Frac(Dot(Vec(a, q), ab), Dot(ab, ab))
                 lo == FracMax(<<0, 1>>, FracMin(tp, tq))
                 hi == FracMin(<<1, 1>>, FracMax(tp, tq))
             IN  IF FracLess(lo, hi) THEN [kind |-> "line", lo |-> lo, hi |-> hi]
                 ELSE IF lo = hi THEN [kind |-> "pt", lo |-> lo, hi |-> lo]
                 ELSE [kind |-> "none", lo |-> <<0, 1>>, hi |-> <<0, 1>>]

(* the meetings of a split line with the edges of a ring *)
RingMeets(ring, a, b) ==
    {SegMeet(a, b, RingEdge(ring, k)[1], RingEdge(ring, k)[2]) : k \in 1 .. Len(ring)}

(* extrLineLR.intersection(splitLineLS): the type of the result and, for a *)
(* point set, the positions of its points along the split line             *)
RingIntersection(ring, a, b) ==
    IF a = b
    THEN [type |-> IF OnRing(ring, a) THEN "Point" ELSE "Empty", pts |-> {}]
    ELSE LET ms == RingMeets(ring, a, b)
             pts == {m.lo : m \in {x \in ms : x.kind = "pt"}}
         IN  IF \E m \in ms : m.kind = "line" THEN [type |-> "Lines", pts |-> pts]
             ELSE IF pts = {} THEN [type |-> "Empty", pts |-> pts]
             ELSE IF Cardinality(pts) = 1 THEN [type |-> "Point", pts |-> pts]
             ELSE [type |-> "MultiPoint", pts |-> pts]

(* splitLineLS.intersects(holeLS) *)
IntersectsRing(ring, a, b) ==
    IF a = b THEN OnRing(ring, a)
    ELSE \E m \in RingMeets(ring, a, b) : m.kind # "none"

(* ------------------------------ validity ------------------------------ *)
Scale(D, p) == <<D * p[1], D * p[2]>>

(* the point T, given in coordinates multiplied by D, against a ring *)
OnRingScaled(ring, D, T) ==
    \E k \in 1 .. Len(ring) :
        OnSegment(Scale(D, RingEdge(ring, k)[1]), Scale(D, RingEdge(ring, k)[2]), T)

(* edges crossed by the ray from T towards increasing x *)
RayCrossings(ring, D, T) ==
    {k \in 1 .. Len(ring) :
        LET P == Scale(D, RingEdge(ring, k)[1])
            Q == Scale(D, RingEdge(ring, k)[2])
        IN  /\ (P[2] > T[2]) # (Q[2] > T[2])
            /\ IF Q[2] > P[2] THEN Orient(P, Q, T) > 0 ELSE Orient(P, Q, T) < 0}

StrictlyInside(ring, D, T) ==
    ~OnRingScaled(ring, D, T) /\ Cardinality(RayCrossings(ring, D, T)) % 2 = 1

RingArea2(ring) ==
    LET RECURSIVE Sum(_)
        Sum(k) == IF k > Len(ring) THEN 0
                  ELSE Cross(RingEdge(ring, k)[1], RingEdge(ring, k)[2]) + Sum(k + 1)
    IN  Sum(1)

(* LinearRing(...).is_ccw *)
IsCcw(ring) == RingArea2(ring) > 0

Adjacent(n, j, k) == k = j + 1 \/ (j = 1 /\ k = n)

(* a ring without self-intersection and with an interior *)
IsSimpleRing(ring) ==
    /\ Len(ring) >= 3
    /\ RingArea2(ring) # 0
    /\ \A k \in 1 .. Len(ring) : RingEdge(ring, k)[1] # RingEdge(ring, k)[2]
    /\ \A j, k \in 1 .. Len(ring) :
          j < k =>
            LET m == SegMeet(RingEdge(ring, j)[1], RingEdge(ring, j)[2],
                             RingEdge(ring, k)[1], RingEdge(ring, k)[2])
            IN  IF Len(ring) > 3 /\ ~Adjacent(Len(ring), j, k) THEN m.kind = "none"
                ELSE m.kind = "pt"

RingsMeet(r1, r2) ==
    \E k \in 1 .. Len(r1) : IntersectsRing(r2, RingEdge(r1, k)[1], RingEdge(r1, k)[2])

(* is_valid of the shapely polygon: simple rings, every hole inside the   *)
(* exterior and clear of it, holes clear of each other                     *)
IsValidPolygon(polygon) ==
    /\ IsSimpleRing(polygon[1])
    /\ \A h \in 1 .. Len(polygon[2]) :
          /\ IsSimpleRing(polygon[2][h])
          /\ ~RingsMeet(polygon[2][h], polygon[1])
          /\ StrictlyInside(polygon[1], 1, polygon[2][h][1])
    /\ \A g, h \in 1 .. Len(polygon[2]) :
          g # h => /\ ~RingsMeet(polygon[2][g], polygon[2][h])
                   /\ ~StrictlyInside(polygon[2][g], 1, polygon[2][h][1])

(* ---------------------- pPol.union(splitLineLS) ----------------------- *)
(* positions along the split line ab where it meets any ring of the        *)
(* polygon, together with its two ends                                     *)
MeetPositions(polygon, a, b) ==
    LET rings == {polygon[1]} \cup {polygon[2][h] : h \in 1 .. Len(polygon[2])}
        ms == UNION {RingMeets(r, a, b) : r \in rings}
        hit == {m \in ms : m.kind # "none"}
    IN  {<<0, 1>>, <<1, 1>>} \cup {m.lo : m \in hit} \cup {m.hi : m \in hit}

(* the middle of the stretch of ab between two positions lies in the       *)
(* polygon: in or on the exterior and not inside a hole                    *)
MiddleInPolygon(polygon, a, b, s, t) ==
    LET D == 2 * s[2] * t[2]
        N == s[1] * t[2] + t[1] * s[2]
        M == <<a[1] * D + N * (b[1] - a[1]), a[2] * D + N * (b[2] - a[2])>>
    IN  /\ OnRingScaled(polygon[1], D, M) \/ StrictlyInside(polygon[1], D, M)
        /\ \A h \in 1 .. Len(polygon[2]) : ~StrictlyInside(polygon[2][h], D, M)

(* the type of the union of the polygon with the split line: the polygon   *)
(* itself when the line runs inside it, a collection otherwise             *)
UnionType(polygon, a, b) ==
    LET ts == MeetPositions(polygon, a, b)
    IN  IF \A s, t \in ts :
              (FracLess(s, t) /\ ~\E r \in ts : FracLess(s, r) /\ FracLess(r, t))
                  => MiddleInPolygon(polygon, a, b, s, t)
        THEN "Polygon"
        ELSE "GeometryCollection"

(* --------------------------- inputs_valid ----------------------------- *)
inputs_valid(polygon, splitLine) ==
    IF splitLine = <<>> THEN FALSE
    ELSE IF Len(splitLine) # 2 THEN FALSE
    ELSE IF polygon = <<>> \/ Len(polygon) # 2 THEN FALSE
    ELSE IF polygon[1] = <<>> THEN FALSE
    ELSE IF ~IsValidPolygon(polygon) THEN FALSE
    ELSE TRUE

(* -------------------------- parameters_valid -------------------------- *)
(* len(commonPts) > 2 *)
TooManyPoints(pts) == Cardinality(pts) > 2

(* the checks without the one on the holes *)
IgnoresHoles(commonPts, polygon, splitLine) ==
    IF commonPts.type = "Empty" THEN FALSE
    ELSE IF commonPts.type # "MultiPoint" THEN FALSE
    ELSE IF TooManyPoints(commonPts.pts) THEN FALSE
    ELSE UnionType(polygon, splitLine[1], splitLine[2]) = "Polygon"

parameters_valid(commonPts, polygon, splitLine) ==
    IF commonPts.type = "Empty" THEN FALSE
    ELSE IF commonPts.type # "MultiPoint" THEN FALSE
    ELSE IF TooManyPoints(commonPts.pts) THEN FALSE
    ELSE IF UnionType(polygon, splitLine[1], splitLine[2]) # "Polygon" THEN FALSE
    ELSE IF \E h \in 1 .. Len(polygon[2]) :
               IntersectsRing(polygon[2][h], splitLine[1], splitLine[2]) THEN FALSE
    ELSE TRUE

(* ------------------------ convert_to_canonical ------------------------ *)
(* A shapely geometry is [type, exterior, interiors], its rings closed,    *)
(* that is, ending with their first point.                                 *)
Reverse(seq) == [k \in 1 .. Len(seq) |-> seq[Len(seq) + 1 - k]]

DropLast(seq) == SubSeq(seq, 1, Len(seq) - 1)

ClosedRing(ring) == ring \o <<ring[1]>>

(* the ring of a hole in canonical form *)
CanonicalHole(coords) ==
    IF IsCcw(DropLast(coords)) THEN DropLast(Reverse(coords)) ELSE DropLast(coords)

(* the value returned, or the exception raised: the return of [] for a     *)
(* geometry that is not a Polygon is inside the debug-print branch         *)
convert_to_canonical(P, debug) ==
    IF P.type # "Polygon" /\ debug = 4 THEN [kind |-> "ok", poly |-> <<>>]
    ELSE IF P.type # "Polygon" THEN [kind |-> "raise", poly |-> <<>>]
    ELSE [kind |-> "ok",
          poly |-> << IF ~IsCcw(DropLast(P.exterior))
                      THEN DropLast(Reverse(P.exterior))
                      ELSE DropLast(P.exterior),
                      [h \in 1 .. Len(P.interiors) |-> CanonicalHole(P.interiors[h])] >>]

(* poly_shapely_to_canonical of pairwise_reopt.py on a polygon that is not *)
(* empty: the coordinate lists are taken whole, and the list stored for a  *)
(* hole is read from polygon.exterior                                      *)
poly_shapely_to_canonical(P) ==
    [kind |-> "ok",
     poly |-> << IF IsCcw(DropLast(P.exterior)) THEN P.exterior ELSE Reverse(P.exterior),
                 [h \in 1 .. Len(P.interiors) |->
                     IF IsCcw(DropLast(P.interiors[h])) THEN Reverse(P.exterior)
                     ELSE P.exterior] >>]

(* --------------------------- polygon_split ---------------------------- *)
(* the point of the split line ab at a position *)
PointAt(a, b, t) ==
    <<a[1] + (t[1] * (b[1] - a[1])) \div t[2], a[2] + (t[1] * (b[2] - a[2])) \div t[2]>>

StrictlyOnEdge(p, q, r) == OnSegment(p, q, r) /\ r # p /\ r # q

(* the closed exterior with the cut points inserted where they fall inside *)
(* an edge                                                                 *)
RECURSIVE Noded(_, _, _)
Noded(ring, cuts, k) ==
    IF k > Len(ring) THEN <<ring[1]>>
    ELSE LET inside == {c \in cuts : StrictlyOnEdge(RingEdge(ring, k)[1], RingEdge(ring, k)[2], c)}
         IN  <<ring[k]>>
             \o (IF inside = {} THEN <<>> ELSE <<CHOOSE c \in inside : TRUE>>)
             \o Noded(ring, cuts, k + 1)

(* extrLineLR.difference(splitLineLS): the pieces of the closed exterior,  *)
(* walked from its first point, between the cut points                     *)
SplitBoundary(ring, cuts) ==
    LET N == Noded(ring, cuts, 1)
        m == Len(N) - 1
        at == {j \in 1 .. m : N[j] \in cuts}
        j1 == CHOOSE j \in at : \A k \in at : j <= k
        j2 == CHOOSE j \in at : \A k \in at : k <= j
    IN  IF j1 = 1
        THEN <<SubSeq(N, 1, j2), SubSeq(N, j2, m + 1)>>
        ELSE <<SubSeq(N, 1, j1), SubSeq(N, j1, j2), SubSeq(N, j2, m + 1)>>

(* the first piece alone *)
FirstPieceOnly(sb) == sb[1]

(* the last piece alone *)
LastPieceOnly(sb) == sb[Len(sb)]

(* the first mask line: the first piece, joined with the last one when     *)
(* there are three                                                         *)
Line1(sb) == IF Len(sb) = 3 THEN DropLast(sb[1] \o sb[3]) ELSE sb[1]

(* an intersection that loses the holes *)
NoHoles(polygon, mask) == <<>>

(* an intersection that keeps every hole, whichever side it lies on *)
AllHoles(polygon, mask) == polygon[2]

(* pPol.intersection(mask): the mask with the holes that lie in it *)
HolesIn(polygon, mask) ==
    SelectSeq(polygon[2], LAMBDA h : StrictlyInside(mask, 1, h[1]))

MaskIntersection(polygon, mask) ==
    [type |-> "Polygon",
     exterior |-> ClosedRing(mask),
     interiors |-> [h \in 1 .. Len(HolesIn(polygon, mask)) |->
                        ClosedRing(HolesIn(polygon, mask)[h])]]

EmptyResult == [kind |-> "empty", P1 |-> <<>>, P2 |-> <<>>]

Raised == [kind |-> "raise", P1 |-> <<>>, P2 |-> <<>>]

polygon_split(polygon, splitLine, debug) ==
    IF ~inputs_valid(polygon, splitLine) THEN EmptyResult
    ELSE LET extr == polygon[1]
             a == splitLine[1]
             b == splitLine[2]
             commonPts == RingIntersection(extr, a, b)
         IN  IF ~parameters_valid(commonPts, polygon, splitLine) THEN EmptyResult
             ELSE LET cuts == {PointAt(a, b, t) : t \in commonPts.pts}
                      splitBoundary == SplitBoundary(extr, cuts)
                      line1 == Line1(splitBoundary)
                      line2 == splitBoundary[2]
                  IN  IF Len(splitBoundary) > 3 THEN EmptyResult
                      ELSE IF /\ Len(splitBoundary) = 3
                              /\ splitBoundary[1][1] # splitBoundary[3][Len(splitBoundary[3])]
                           THEN EmptyResult
                      ELSE IF Len(line1) < 3 \/ Len(line2) < 3 THEN Raised
                      ELSE IF ~IsSimpleRing(line1) THEN EmptyResult
                      ELSE IF ~IsSimpleRing(line2) THEN EmptyResult
                      ELSE LET resP1 == convert_to_canonical(MaskIntersection(polygon, line1), debug)
                               resP2 == convert_to_canonical(MaskIntersection(polygon, line2), debug)
                           IN  IF resP1.kind = "raise" \/ resP2.kind = "raise" THEN Raised
                               ELSE [kind |-> "pair", P1 |-> resP1.poly, P2 |-> resP2.poly]

(* ------------------------------ sorting ------------------------------- *)
(* sorted(costs, key=lambda v: v[1], reverse=...) is stable: an entry is   *)
(* placed after every earlier entry that does not have to follow it.       *)
RECURSIVE InsertBy(_, _, _)
InsertBy(desc, sorted, e) ==
    IF sorted = <<>> THEN <<e>>
    ELSE IF (IF desc THEN sorted[1][2] >= e[2] ELSE sorted[1][2] <= e[2])
         THEN <<sorted[1]>> \o InsertBy(desc, Tail(sorted), e)
         ELSE <<e>> \o sorted

RECURSIVE SortBy(_, _)
SortBy(desc, seq) ==
    IF seq = <<>> THEN <<>>
    ELSE InsertBy(desc, SortBy(desc, SubSeq(seq, 1, Len(seq) - 1)), seq[Len(seq)])

(* ------------------------------- state -------------------------------- *)
VARIABLES
    impl,                \* "chi": ChiOptimizer, "legacy": reopt_recursion.py
    mode,                \* "run": run_iterations, "call": one dft_recursion call
    oracle,              \* which cost oracle stands for compute_chi
    sites,               \* cell id -> site
    decomposition,       \* cell id -> polygon
    num_iterations,      \* self.num_iterations
    i,                   \* loop variable of run_iterations
    pc,                  \* "ctl", "harness", "pair", "paired", "drv", "returned", ...
    stack,               \* frames of dft_recursion, innermost last
    ret,                 \* value a callee has just returned: "none", "True", "False"
    adjacency_matrix,    \* the matrix handed to the top-level dft_recursion
    original_chi_costs,  \* Unbound or the snapshot of round 0
    new_chi_costs,       \* Unbound or the final snapshot
    err,                 \* "none" or the exception that ended the run
    atCall,              \* decomposition when the top-level call started
    atInit,              \* decomposition as supplied
    old,                 \* decomposition just before the latest commit
    pair,                \* <<start cell, neighbour>> of the latest commit, or <<>>
    result,              \* polygons returned by the optimiser for that commit
    commits,             \* commits made during the current top-level call
    op,                  \* "none", or which function of polygon_split.py is called
    polygon,             \* argument of polygon_split, in canonical form
    splitLine,           \* argument of polygon_split
    DEBUG_LEVEL,         \* the module's global DEBUG_LEVEL
    geom,                \* argument of convert_to_canonical, a shapely geometry
    called,              \* the call has been made
    outcome,             \* what polygon_split returned or raised
    converted,           \* what convert_to_canonical returned or raised
    args,                \* arguments of a direct compute_pairwise_optimal call
    answer               \* what that call returned and how far it searched

vars == <<impl, mode, oracle, sites, decomposition, num_iterations, i, pc,
          stack, ret, adjacency_matrix, original_chi_costs, new_chi_costs,
          err, atCall, atInit, old, pair, result, commits,
          op, polygon, splitLine, DEBUG_LEVEL, geom, called, outcome, converted,
          args, answer>>

split_vars == <<op, polygon, splitLine, DEBUG_LEVEL, geom, called, outcome, converted>>

driver_vars == <<impl, mode, oracle, sites, decomposition, num_iterations, i, pc,
                 stack, ret, adjacency_matrix, original_chi_costs, new_chi_costs,
                 err, atCall, atInit, old, pair, result, commits>>

pair_vars == <<args, answer>>

inputs == <<impl, mode, oracle, sites, num_iterations, atInit, split_vars, pair_vars>>

(* a local variable that has not been assigned yet, and one that has *)
Unbound == [bound |-> FALSE, v |-> <<>>]

Bound(x) == [bound |-> TRUE, v |-> x]

(* the variables of the polygon_split calls while none is being made *)
SplitIdle ==
    /\ op = "none"
    /\ polygon = <<>>
    /\ splitLine = <<>>
    /\ DEBUG_LEVEL = 0
    /\ geom = [type |-> "Polygon", exterior |-> <<>>, interiors |-> <<>>]
    /\ called = FALSE
    /\ outcome = EmptyResult
    /\ converted = [kind |-> "ok", poly |-> <<>>]

(* the variables of a direct optimiser call while none is being made *)
NoArgs == [polygon_a |-> <<>>, polygon_b |-> <<>>,
           robot_a_init_pos |-> <<>>, robot_b_init_pos |-> <<>>]

NoAnswer == [res |-> NoResult, evaluated |-> 0]

PairIdle == args = NoArgs /\ answer = NoAnswer

(* polygons handed to a direct optimiser call: the empty polygon, one      *)
(* whose cuts cross, the slab [0,2] and polygons that share an edge with   *)
(* it, meet it in one point, lie apart from it and overlap it              *)
PairPolygons ==
    { <<>>,
      <<<<0, 2>>, <<2, 0>>>>,
      <<<<0, 0>>, <<2, 2>>>>,
      <<<<2, 2>>, <<4, 4>>>>,
      <<<<2, 3>>, <<4, 4>>>>,
      <<<<3, 3>>, <<5, 5>>>>,
      <<<<1, 1>>, <<3, 3>>>> }

(* robot positions handed to it: the empty point and the origin *)
PairSites == {<<>>, <<0, 0>>}

PairInputs ==
    [polygon_a : PairPolygons, polygon_b : PairPolygons,
     robot_a_init_pos : PairSites, robot_b_init_pos : PairSites]

(* ------------------------------- Init --------------------------------- *)
(* every robot starts at the origin, but for at most one that starts at    *)
(* the far corner of the strip                                             *)
SiteMaps ==
    {s \in [CellIds -> SitePoints] :
        \A a, b \in CellIds : (s[a] # <<0, 0>> /\ s[b] # <<0, 0>>) => a = b}

(* decompositions of the strip into NumCells vertical slabs, ids from left *)
(* to right (the scenarios of decomposition_generator, ids 1 and 5)        *)
SlabBorders ==
    {x \in [0 .. NumCells -> 0 .. StripW] :
        /\ x[0] = 0
        /\ x[NumCells] = StripW
        /\ \A c \in CellIds : x[c] < x[c + 1]}

SlabDecompositions ==
    {[c \in CellIds |-> <<<<x[c], x[c]>>, <<x[c + 1], x[c + 1]>>>>] : x \in SlabBorders}

(* the adjacency matrices handed to a single driver call: no links, the    *)
(* links between consecutive slabs, which is what compute_adjacency yields *)
(* for a slab decomposition, or every pair of cells linked, the densest    *)
(* relation a decomposition of the plane can have on few cells             *)
AdjacencyMatrices ==
    {[a \in CellIds |-> [b \in CellIds |->
        IF a # b /\ (all \/ (Abs(a - b) = 1 /\ consecutive)) THEN "True" ELSE "None"]] :
            consecutive \in BOOLEAN, all \in BOOLEAN}

Init ==
    /\ mode \in {"run", "call", "pair"}
    /\ impl \in {"chi", "legacy"}
    /\ mode # "call" => impl = "chi"
    /\ oracle \in 1 .. NumOracles
    /\ sites \in SiteMaps
    /\ decomposition \in SlabDecompositions
    /\ mode = "pair" =>
          /\ sites = [c \in CellIds |-> <<0, 0>>]
          /\ decomposition = [c \in CellIds |->
                  <<<<c, c>>, IF c = NumCells - 1 THEN <<StripW, StripW>>
                                                 ELSE <<c + 1, c + 1>>>>]
    /\ num_iterations \in 0 .. MaxIter
    /\ mode # "run" => num_iterations = 0
    /\ i = 0
    /\ pc = CASE mode = "run" -> "ctl" [] mode = "call" -> "harness" [] OTHER -> "pair"
    /\ args \in IF mode = "pair" THEN PairInputs ELSE {NoArgs}
    /\ answer = NoAnswer
    /\ stack = <<>>
    /\ ret = "none"
    /\ adjacency_matrix = [a \in CellIds |-> [b \in CellIds |-> "None"]]
    /\ original_chi_costs = Unbound
    /\ new_chi_costs = Unbound
    /\ err = "none"
    /\ atCall = decomposition
    /\ atInit = decomposition
    /\ old = decomposition
    /\ pair = <<>>
    /\ result = <<>>
    /\ commits = 0
    /\ SplitIdle

(* --------------------------- get_sorted_costs ------------------------- *)
CellCost(o, d, st, c) == cost_func(o, d[c], st[c])

get_sorted_costs(o, d, st) ==
    SortBy(TRUE, [k \in 1 .. NumCells |-> <<k - 1, CellCost(o, d, st, k - 1)>>])

(* ------------------------ dft_recursion: entry ------------------------ *)
(* a neighbour test that takes every cell of the row *)
EveryCell(im, entry) == TRUE

(* which matrix entries make a cell a neighbour *)
IsNeighbor(im, entry) == IF im = "chi" THEN entry = "True" ELSE entry # "None"

RECURSIVE NeighborCosts(_, _, _, _, _, _, _)
NeighborCosts(im, o, d, st, adj, v, c) ==
    IF c >= NumCells THEN <<>>
    ELSE IF IsNeighbor(im, adj[v][c])
         THEN <<<<c, CellCost(o, d, st, c)>>>> \o NeighborCosts(im, o, d, st, adj, v, c + 1)
         ELSE NeighborCosts(im, o, d, st, adj, v, c + 1)

(* a test that also lets a neighbour of equal cost through *)
NotDearer(cell_chi_cost, max_vertex_cost) == cell_chi_cost <= max_vertex_cost

(* if cell_chi_cost < max_vertex_cost *)
IsCheaper(cell_chi_cost, max_vertex_cost) == cell_chi_cost < max_vertex_cost

(* result = compute_pairwise_optimal(...) of the loop iteration a frame    *)
(* stands at, when that iteration passes the cost test                     *)
Attempt(o, d, st, v, cost, nbrs, k) ==
    IF k <= Len(nbrs) /\ IsCheaper(nbrs[k][2], cost)
    THEN compute_pairwise_optimal(o, d[v], d[nbrs[k][1]], st[v], st[nbrs[k][1]])
    ELSE NoResult

(* a frame at its k-th loop iteration *)
AtIteration(o, d, st, v, cost, nbrs, k) ==
    [v |-> v, cost |-> cost, nbrs |-> nbrs, k |-> k,
     res |-> Attempt(o, d, st, v, cost, nbrs, k)]

(* the cell was the start cell of an invocation that has returned to a     *)
(* frame of the call chain: a frame has passed a loop iteration on it that *)
(* met the cost test, and such an iteration either commits, which ends the *)
(* frame, or recurses into the cell                                        *)
VisitedBefore(c) ==
    \E d \in 1 .. Len(stack) : \E j \in 1 .. (stack[d].k - 1) :
        /\ j <= Len(stack[d].nbrs)
        /\ stack[d].nbrs[j][1] = c
        /\ IsCheaper(stack[d].nbrs[j][2], stack[d].cost)

(* an invocation that keeps a visited set: on a cell visited before it     *)
(* finds nothing to do                                                     *)
EnterUnlessVisited(im, o, d, st, adj, v) ==
    IF VisitedBefore(v)
    THEN AtIteration(o, d, st, v, CellCost(o, d, st, v), <<>>, 1)
    ELSE AtIteration(o, d, st, v, CellCost(o, d, st, v),
                     SortBy(FALSE, NeighborCosts(im, o, d, st, adj, v, 0)), 1)

(* the locals of one invocation as its loop starts *)
EnterFrame(im, o, d, st, adj, v) ==
    AtIteration(o, d, st, v, CellCost(o, d, st, v),
                SortBy(FALSE, NeighborCosts(im, o, d, st, adj, v, 0)), 1)

(* the frame on top of the stack moved to its next loop iteration *)
NextIteration(o, d, st, f) == AtIteration(o, d, st, f.v, f.cost, f.nbrs, f.k + 1)

Top == stack[Len(stack)]

Pop == SubSeq(stack, 1, Len(stack) - 1)

ReplaceTop(f) == [stack EXCEPT ![Len(stack)] = f]

InLoop == pc = "drv" /\ ret = "none" /\ stack # <<>> /\ Top.k <= Len(Top.nbrs)

(* the optimiser call of the current loop iteration *)
PairResult == Top.res

(* ------------------------------ controller ---------------------------- *)
(* one pass through the head of the loop of run_iterations up to the call  *)
RoundStart ==
    /\ pc = "ctl" /\ i < num_iterations
    /\ LET sorted_chi_costs == get_sorted_costs(oracle, decomposition, sites)
           adj == compute_adjacency(decomposition)
       IN  /\ original_chi_costs' = IF i = 0 THEN Bound(sorted_chi_costs)
                                    ELSE original_chi_costs
           /\ adjacency_matrix' = adj
           /\ stack' = <<EnterFrame(impl, oracle, decomposition, sites, adj,
                                    sorted_chi_costs[1][1])>>
    /\ pc' = "drv"
    /\ atCall' = decomposition
    /\ commits' = 0
    /\ UNCHANGED <<inputs, decomposition, i, ret, new_chi_costs, err, old, pair, result>>

(* the call returned to run_iterations: end of one round *)
RoundEnd ==
    /\ pc = "returned" /\ mode = "run"
    /\ i' = i + 1
    /\ ret' = "none"
    /\ pc' = "ctl"
    /\ UNCHANGED <<inputs, decomposition, stack, adjacency_matrix, original_chi_costs,
                   new_chi_costs, err, atCall, old, pair, result, commits>>

(* after the loop: the final snapshot and the return statement, which      *)
(* reads original_chi_costs                                                *)
RunFinish ==
    /\ pc = "ctl" /\ i >= num_iterations
    /\ new_chi_costs' = Bound(get_sorted_costs(oracle, decomposition, sites))
    /\ IF original_chi_costs.bound
       THEN pc' = "done" /\ err' = "none"
       ELSE pc' = "failed" /\ err' = "UnboundLocalError"
    /\ UNCHANGED <<inputs, decomposition, i, stack, ret, adjacency_matrix,
                   original_chi_costs, atCall, old, pair, result, commits>>

(* a direct top-level call of dft_recursion with a matrix and a start cell *)
CallStart ==
    /\ pc = "harness"
    /\ \E adj \in AdjacencyMatrices, v \in CellIds :
          /\ adjacency_matrix' = adj
          /\ stack' = <<EnterFrame(impl, oracle, decomposition, sites, adj, v)>>
    /\ pc' = "drv"
    /\ atCall' = decomposition
    /\ commits' = 0
    /\ UNCHANGED <<inputs, decomposition, i, ret, original_chi_costs, new_chi_costs,
                   err, old, pair, result>>

(* ------------------------ dft_recursion: the loop --------------------- *)
(* a callee's frame is dropped; the caller, if any, sees the value *)
ReturnValue(val) ==
    /\ stack' = Pop
    /\ ret' = val
    /\ pc' = IF Len(stack) = 1 THEN "returned" ELSE "drv"

(* the neighbour's cost is not below the start cell's: next iteration *)
SkipNeighbor ==
    /\ InLoop
    /\ ~(IsCheaper(Top.nbrs[Top.k][2], Top.cost))
    /\ stack' = ReplaceTop(NextIteration(oracle, decomposition, sites, Top))
    /\ UNCHANGED <<inputs, decomposition, i, pc, ret, adjacency_matrix,
                   original_chi_costs, new_chi_costs, err, atCall, old, pair,
                   result, commits>>

(* a driver that, given no result, goes on to the next neighbour without   *)
(* entering the neighbour's invocation                                     *)
OptimizeFailSkips ==
    /\ InLoop
    /\ IsCheaper(Top.nbrs[Top.k][2], Top.cost)
    /\ ~PairResult.ok
    /\ stack' = ReplaceTop(NextIteration(oracle, decomposition, sites, Top))
    /\ UNCHANGED <<inputs, decomposition, i, pc, ret, adjacency_matrix,
                   original_chi_costs, new_chi_costs, err, atCall, old, pair,
                   result, commits>>

(* the optimiser returned no result: recurse into the neighbour with the   *)
(* same matrix                                                             *)
OptimizeFail ==
    /\ InLoop
    /\ IsCheaper(Top.nbrs[Top.k][2], Top.cost)
    /\ ~PairResult.ok
    /\ stack' = Append(stack, EnterFrame(impl, oracle, decomposition, sites,
                                         adjacency_matrix, Top.nbrs[Top.k][1]))
    /\ UNCHANGED <<inputs, decomposition, i, pc, ret, adjacency_matrix,
                   original_chi_costs, new_chi_costs, err, atCall, old, pair,
                   result, commits>>

(* which of the two assignment branches ChiOptimizer takes; the older      *)
(* driver has no such test and always assigns in the order returned        *)
StraightBranch(im, o, res, sA, sB) ==
    \/ im = "legacy"
    \/ Max2(cost_func(o, res[1], sA), cost_func(o, res[2], sB))
         <= Max2(cost_func(o, res[2], sA), cost_func(o, res[1], sB))

(* a commit that stores the second polygon in a cell outside the pair *)
WriteOutsidePair(d, v, n, res) ==
    SetPolygon(SetPolygon(d, v, res[1]), CHOOSE c \in CellIds : c # v /\ c # n, res[2])

(* decomposition[max_vertex_id], decomposition[cell_id] = result *)
WriteStraight(d, v, n, res) == SetPolygon(SetPolygon(d, v, res[1]), n, res[2])

(* a commit that stores one polygon and then fails *)
WriteFirstOnly(d, v, n, res) == SetPolygon(d, n, res[1])

(* decomposition[cell_idx], decomposition[max_vertex_id] = result: the     *)
(* name cell_idx is not defined, so evaluating the first target raises     *)
(* NameError before anything is stored                                     *)
WriteCrossed(d, v, n, res) == d

Commit ==
    /\ InLoop
    /\ IsCheaper(Top.nbrs[Top.k][2], Top.cost)
    /\ PairResult.ok
    /\ LET v == Top.v
           n == Top.nbrs[Top.k][1]
           res == PairResult.polys
       IN  /\ StraightBranch(impl, oracle, res, sites[v], sites[n])
           /\ decomposition' = WriteStraight(decomposition, v, n, res)
           /\ old' = decomposition
           /\ pair' = <<v, n>>
           /\ result' = res
    /\ commits' = commits + 1
    /\ ReturnValue("True")
    /\ UNCHANGED <<inputs, i, adjacency_matrix, original_chi_costs, new_chi_costs,
                   err, atCall>>

CommitRaise ==
    /\ InLoop
    /\ IsCheaper(Top.nbrs[Top.k][2], Top.cost)
    /\ PairResult.ok
    /\ LET v == Top.v
           n == Top.nbrs[Top.k][1]
           res == PairResult.polys
       IN  /\ ~StraightBranch(impl, oracle, res, sites[v], sites[n])
           /\ decomposition' = WriteCrossed(decomposition, v, n, res)
           /\ old' = decomposition
           /\ pair' = <<v, n>>
           /\ result' = res
    /\ pc' = "failed"
    /\ err' = "NameError"
    /\ UNCHANGED <<inputs, i, stack, ret, adjacency_matrix, original_chi_costs,
                   new_chi_costs, atCall, commits>>

(* the loop ran out of neighbours: return False *)
Exhausted ==
    /\ pc = "drv" /\ ret = "none" /\ stack # <<>>
    /\ Top.k > Len(Top.nbrs)
    /\ ReturnValue("False")
    /\ UNCHANGED <<inputs, decomposition, i, adjacency_matrix, original_chi_costs,
                   new_chi_costs, err, atCall, old, pair, result, commits>>

(* what an invocation returns when its recursive call returned True:       *)
(* ChiOptimizer returns True; the older driver leaves the loop with break  *)
(* and falls to its final return False                                     *)
AfterNestedSuccess(im) == IF im = "chi" THEN "True" ELSE "False"

ResumeTrue ==
    /\ pc = "drv" /\ ret = "True" /\ stack # <<>>
    /\ ReturnValue(AfterNestedSuccess(impl))
    /\ UNCHANGED <<inputs, decomposition, i, adjacency_matrix, original_chi_costs,
                   new_chi_costs, err, atCall, old, pair, result, commits>>

(* the recursive call returned False: go on with the next neighbour *)
ResumeFalse ==
    /\ pc = "drv" /\ ret = "False" /\ stack # <<>>
    /\ stack' = ReplaceTop(NextIteration(oracle, decomposition, sites, Top))
    /\ ret' = "none"
    /\ UNCHANGED <<inputs, decomposition, i, pc, adjacency_matrix,
                   original_chi_costs, new_chi_costs, err, atCall, old, pair,
                   result, commits>>

(* ------------- compute_pairwise_optimal called on its own ------------- *)
PairCall ==
    /\ pc = "pair"
    /\ pc' = "paired"
    /\ answer' =
          [res |-> compute_pairwise_optimal(oracle, args.polygon_a, args.polygon_b,
                       args.robot_a_init_pos, args.robot_b_init_pos),
           evaluated |-> CandidatesEvaluated(args.polygon_a, args.polygon_b,
                             args.robot_a_init_pos, args.robot_b_init_pos)]
    /\ UNCHANGED <<impl, mode, oracle, sites, num_iterations, atInit, split_vars, args,
                   decomposition, i, stack, ret, adjacency_matrix, original_chi_costs,
                   new_chi_costs, err, atCall, old, pair, result, commits>>

Next ==
    \/ PairCall
    \/ RoundStart
    \/ RoundEnd
    \/ RunFinish
    \/ CallStart
    \/ SkipNeighbor
    \/ OptimizeFail
    \/ Commit
    \/ CommitRaise
    \/ Exhausted
    \/ ResumeTrue
    \/ ResumeFalse

Spec == Init /\ [][Next]_vars

(* ------------------------------ typing -------------------------------- *)
TypeOK ==
    /\ decomposition \in [CellIds -> Polys]
    /\ pc \in {"ctl", "harness", "pair", "paired", "drv", "returned", "done", "failed"}
    /\ ret \in {"none", "True", "False"}
    /\ i \in 0 .. num_iterations

(* ====================================================================== *)
(* Calls of polygon_split and convert_to_canonical on their own            *)
(* ====================================================================== *)
Square == <<<<0, 0>>, <<4, 0>>, <<4, 4>>, <<0, 4>>>>

(* the polygons of the module's sanity tests, on a grid of 4 units *)
PolygonCatalogue ==
    { <<>>,
      << <<>> >>,
      << <<>>, <<>> >>,
      << Square, <<>> >>,
      << <<<<0, 1>>, <<4, 1>>, <<4, 4>>, <<1, 0>>>>, <<>> >>,
      << <<<<0, 0>>, <<4, 0>>, <<4, 4>>, <<3, 4>>, <<1, 3>>, <<2, 4>>, <<0, 4>>>>, <<>> >>,
      << <<<<0, 0>>, <<4, 0>>, <<4, 2>>, <<2, 2>>, <<2, 4>>, <<0, 4>>>>, <<>> >>,
      << Square, << <<<<1, 1>>, <<1, 3>>, <<3, 3>>, <<3, 1>>>> >> >>,
      << Square, << <<<<1, 1>>, <<1, 2>>, <<2, 1>>>>, <<<<3, 3>>, <<3, 2>>, <<2, 3>>>> >> >> }

SplitLines ==
    {<<>>, <<<<0, 0>>>>, <<<<0, 0>>, <<4, 4>>, <<0, 4>>>>}
        \cup {<<a, b>> : a \in GridPoints, b \in GridPoints}

Geometries ==
    { [type |-> "Polygon", exterior |-> ClosedRing(Square), interiors |-> <<>>],
      [type |-> "Polygon", exterior |-> Reverse(ClosedRing(Square)), interiors |-> <<>>],
      [type |-> "Polygon", exterior |-> Reverse(ClosedRing(Square)),
       interiors |-> << ClosedRing(<<<<1, 1>>, <<2, 1>>, <<1, 2>>>>),
                        ClosedRing(<<<<3, 3>>, <<3, 2>>, <<2, 3>>>>) >>],
      [type |-> "MultiPolygon", exterior |-> <<>>, interiors |-> <<>>],
      [type |-> "GeometryCollection", exterior |-> <<>>, interiors |-> <<>>],
      [type |-> "LineString", exterior |-> <<>>, interiors |-> <<>>] }

(* the driver's variables while only polygon_split.py is exercised *)
DriverIdle ==
    /\ impl = "chi" /\ mode = "off" /\ oracle = 1
    /\ sites = [c \in CellIds |-> <<0, 0>>]
    /\ decomposition = [c \in CellIds |-> <<<<0, 0>>, <<StripW, StripW>>>>]
    /\ num_iterations = 0 /\ i = 0 /\ pc = "off"
    /\ stack = <<>> /\ ret = "none"
    /\ adjacency_matrix = [a \in CellIds |-> [b \in CellIds |-> "None"]]
    /\ original_chi_costs = Unbound /\ new_chi_costs = Unbound
    /\ err = "none"
    /\ atCall = decomposition /\ atInit = decomposition /\ old = decomposition
    /\ pair = <<>> /\ result = <<>> /\ commits = 0

InitSplit ==
    /\ DriverIdle
    /\ op \in {"split", "convert", "to_canonical"}
    /\ DEBUG_LEVEL \in {0, 4}
    /\ IF op = "split"
       THEN /\ polygon \in PolygonCatalogue
            /\ splitLine \in SplitLines
            /\ geom = [type |-> "Polygon", exterior |-> <<>>, interiors |-> <<>>]
       ELSE /\ polygon = <<>>
            /\ splitLine = <<>>
            /\ geom \in Geometries
            /\ op = "to_canonical" => geom.type = "Polygon"
    /\ called = FALSE
    /\ outcome = EmptyResult
    /\ converted = [kind |-> "ok", poly |-> <<>>]
    /\ PairIdle

SplitCall ==
    /\ op = "split" /\ ~called
    /\ called' = TRUE
    /\ outcome' = polygon_split(polygon, splitLine, DEBUG_LEVEL)
    /\ UNCHANGED <<driver_vars, pair_vars, op, polygon, splitLine, DEBUG_LEVEL, geom,
                   converted>>

ConvertCall ==
    /\ op = "convert" /\ ~called
    /\ called' = TRUE
    /\ converted' = convert_to_canonical(geom, DEBUG_LEVEL)
    /\ UNCHANGED <<driver_vars, pair_vars, op, polygon, splitLine, DEBUG_LEVEL, geom,
                   outcome>>

(* the older conversion, called on a shapely Polygon *)
CanonicalCall ==
    /\ op = "to_canonical" /\ ~called
    /\ called' = TRUE
    /\ converted' = poly_shapely_to_canonical(geom)
    /\ UNCHANGED <<driver_vars, pair_vars, op, polygon, splitLine, DEBUG_LEVEL, geom,
                   outcome>>

NextSplit == SplitCall \/ ConvertCall \/ CanonicalCall

SpecSplit == InitSplit /\ [][NextSplit]_vars


(* ----------------------------- claims --------------------------------- *)
(* a commit has been made and pair, old and result describe the latest *)
Committed == pair # <<>> /\ err # "NameError"

PairMax(d) ==
    Max2(CellCost(oracle, d, sites, pair[1]), CellCost(oracle, d, sites, pair[2]))

(* C1: whenever the driver has committed new polygons to a pair of cells,  *)
(* the larger of the two cells' costs after the commit, each with the      *)
(* site its cell holds, is at most the larger of the two costs before.     *)
C1_NonWorseningStep == Committed => PairMax(decomposition) <= PairMax(old)

RECURSIVE MaxCost(_)
MaxCost(snapshot) ==
    IF Len(snapshot) = 1 THEN snapshot[1][2]
    ELSE Max2(snapshot[1][2], MaxCost(Tail(snapshot)))

(* C2: when run_iterations has taken both snapshots, the largest cost in   *)
(* the one taken after the last round is at most the largest cost in the   *)
(* one taken before the first round.                                       *)
C2_NonWorseningRun ==
    (original_chi_costs.bound /\ new_chi_costs.bound)
        => MaxCost(new_chi_costs.v) <= MaxCost(original_chi_costs.v)

C2_Witness ==
    /\ pc = "done" /\ num_iterations >= 2
    /\ MaxCost(new_chi_costs.v) < MaxCost(original_chi_costs.v)

(* C3: a top-level driver call returns True exactly when a re-cut was      *)
(* committed during the call, and a call that returns False has left       *)
(* every cell as it was.                                                   *)
C3_TrueIffMutated ==
    pc = "returned" => /\ (ret = "True") <=> (commits > 0)
                       /\ ret = "False" => decomposition = atCall

C5_Atomic ==
    pair # <<>> =>
        \/ decomposition[pair[1]] = old[pair[1]] /\ decomposition[pair[2]] = old[pair[2]]
        \/ decomposition[pair[1]] = result[1] /\ decomposition[pair[2]] = result[2]
        \/ decomposition[pair[1]] = result[2] /\ decomposition[pair[2]] = result[1]

C5_Witness ==
    /\ pc = "failed" /\ err = "NameError"
    /\ result[1] # old[pair[1]] /\ result[1] # old[pair[2]]
    /\ decomposition = old

(* C6: the cells always partition the strip: the cell ids are 0..n-1,      *)
(* every cell is a valid polygon, no two cells overlap and the areas add   *)
(* up to the area of the decomposition as supplied.                        *)
Overlap(A, B) == ~(CutLeq(A[2], B[1]) \/ CutLeq(B[2], A[1]))

RECURSIVE TotalArea2(_, _)
TotalArea2(d, c) == IF c >= NumCells THEN 0 ELSE Area2(d[c]) + TotalArea2(d, c + 1)

C6_Partition ==
    /\ DOMAIN decomposition = CellIds
    /\ \A c \in CellIds : IsValidPoly(decomposition[c])
    /\ \A a, b \in CellIds : a # b => ~Overlap(decomposition[a], decomposition[b])
    /\ TotalArea2(decomposition, 0) = TotalArea2(atInit, 0)

C6_Witness ==
    /\ mode = "run" /\ pc = "done" /\ num_iterations >= 2
    /\ \E c \in CellIds : decomposition[c] # atInit[c]
    /\ \E c \in CellIds : decomposition[c][1][1] # decomposition[c][1][2]

(* C7: when the optimiser has succeeded on a pair of cells, running it     *)
(* again on the two polygons it returned, with the same sites and          *)
(* parameters, returns no result.                                          *)
C7_Idempotent ==
    result # <<>> =>
        ~compute_pairwise_optimal(oracle, result[1], result[2],
                                  sites[pair[1]], sites[pair[2]]).ok

(* C8: for every iteration count, run_iterations returns the snapshot of   *)
(* the decomposition as supplied and the snapshot of the final             *)
(* decomposition, each listing every cell id once in non-increasing order  *)
(* of cost.                                                                *)
IsSnapshotOf(snap, d) ==
    /\ Len(snap) = NumCells
    /\ \A c \in CellIds : \E k \in 1 .. NumCells : snap[k] = <<c, CellCost(oracle, d, sites, c)>>
    /\ \A k \in 1 .. (NumCells - 1) : snap[k][2] >= snap[k + 1][2]

C8_ReturnsSnapshots ==
    (mode = "run" /\ pc \in {"done", "failed"}) =>
        /\ pc = "done"
        /\ original_chi_costs.bound /\ IsSnapshotOf(original_chi_costs.v, atInit)
        /\ new_chi_costs.bound /\ IsSnapshotOf(new_chi_costs.v, decomposition)

(* C9: every geometric validation failure inside the split engine is       *)
(* returned as the 'no result' value and never raised: no call of          *)
(* polygon_split or convert_to_canonical ends in an exception, and a       *)
(* geometry that is not a single polygon converts to the empty value.      *)
C9_NeverRaised ==
    called =>
        /\ outcome.kind # "raise"
        /\ converted.kind # "raise"
        /\ (op = "convert" /\ geom.type # "Polygon" => converted.poly = <<>>)

(* the inputs that C10 lists as degenerate *)
MalformedPolygon == polygon = <<>> \/ Len(polygon) # 2 \/ polygon[1] = <<>>

MalformedChord == Len(splitLine) # 2

DuplicateEndpoints == splitLine[1] = splitLine[2]

NotTwoPoints ==
    LET c == RingIntersection(polygon[1], splitLine[1], splitLine[2])
    IN  c.type # "MultiPoint" \/ Cardinality(c.pts) # 2

CrossesHole ==
    \E h \in 1 .. Len(polygon[2]) :
        IntersectsRing(polygon[2][h], splitLine[1], splitLine[2])

Degenerate ==
    \/ MalformedPolygon
    \/ MalformedChord
    \/ ~IsValidPolygon(polygon)
    \/ DuplicateEndpoints
    \/ NotTwoPoints
    \/ CrossesHole

(* C10: polygon_split returns the empty result, and no polygons, for every *)
(* degenerate input: a malformed, empty or invalid polygon, a chord that   *)
(* is empty, has not two coordinates or has equal endpoints, a chord that  *)
(* does not meet the exterior in exactly two points, a chord that meets a  *)
(* hole.                                                                   *)
C10_DegenerateEmpty ==
    op = "split" /\ called /\ Degenerate => outcome = EmptyResult

(* a well-formed chord between two points of the exterior of a valid       *)
(* polygon that runs into a hole has been refused *)
C10_Witness ==
    /\ op = "split" /\ called
    /\ ~MalformedPolygon /\ ~MalformedChord /\ IsValidPolygon(polygon)
    /\ ~DuplicateEndpoints /\ ~NotTwoPoints /\ CrossesHole
    /\ outcome = EmptyResult

(* twice the area of a polygon in canonical form *)
PolyArea2(P) ==
    LET RECURSIVE HoleSum(_)
        HoleSum(h) == IF h > Len(P[2]) THEN 0 ELSE Abs(RingArea2(P[2][h])) + HoleSum(h + 1)
    IN  Abs(RingArea2(P[1])) - HoleSum(1)

(* the point T, in coordinates multiplied by D, lies in the open polygon *)
InsidePolygon(P, D, T) ==
    /\ StrictlyInside(P[1], D, T)
    /\ \A h \in 1 .. Len(P[2]) :
          ~StrictlyInside(P[2][h], D, T) /\ ~OnRingScaled(P[2][h], D, T)

(* the open segments pq and rs cross in a single interior point *)
ProperCross(p, q, r, s) ==
    /\ Orient(p, q, r) * Orient(p, q, s) < 0
    /\ Orient(r, s, p) * Orient(r, s, q) < 0

(* two polygons share interior: some half-grid point lies in both, or two  *)
(* of their exterior edges cross                                           *)
PolygonsOverlap(P, Q) ==
    \/ \E T \in (0 .. (2 * GridMax)) \X (0 .. (2 * GridMax)) :
          InsidePolygon(P, 2, T) /\ InsidePolygon(Q, 2, T)
    \/ \E j \in 1 .. Len(P[1]), k \in 1 .. Len(Q[1]) :
          ProperCross(RingEdge(P[1], j)[1], RingEdge(P[1], j)[2],
                      RingEdge(Q[1], k)[1], RingEdge(Q[1], k)[2])

SplitDone == op = "split" /\ called /\ outcome.kind = "pair"

(* C11: whenever polygon_split succeeds, the areas of the two returned     *)
(* polygons add up to the area of the polygon that was split, and the two  *)
(* returned polygons do not overlap.                                       *)
C11_AreaConserved ==
    SplitDone =>
        /\ PolyArea2(outcome.P1) + PolyArea2(outcome.P2) = PolyArea2(polygon)
        /\ ~PolygonsOverlap(outcome.P1, outcome.P2)

(* a polygon with holes has been split into two pieces of different area,  *)
(* each keeping a hole                                                     *)
C11_Witness ==
    /\ SplitDone
    /\ outcome.P1[2] # <<>> /\ outcome.P2[2] # <<>>
    /\ PolyArea2(outcome.P1) > 0
    /\ PolyArea2(outcome.P1) < PolyArea2(outcome.P2)

(* ring A read from its k-th vertex on *)
Rotated(A, k) == [j \in 1 .. Len(A) |-> A[((j + k - 2) % Len(A)) + 1]]

IsRotation(A, B) == Len(A) = Len(B) /\ \E k \in 1 .. Len(A) : Rotated(A, k) = B

RingVertices(A) == {A[k] : k \in 1 .. Len(A)}

(* the exterior of the union of two polygons that lie on either side of a  *)
(* common edge uv: the first ring from u round to v, then the second ring  *)
(* from v round to u, the ends of the common edge kept as vertices         *)
UnionExterior(P, Q) ==
    LET uv == CHOOSE e \in RingVertices(P[1]) \X RingVertices(Q[1]) :
                  \E j \in 1 .. Len(P[1]), k \in 1 .. Len(Q[1]) :
                      /\ Rotated(P[1], j)[1] = e[1] /\ Rotated(P[1], j)[Len(P[1])] = e[2]
                      /\ Rotated(Q[1], k)[1] = e[2] /\ Rotated(Q[1], k)[Len(Q[1])] = e[1]
        j == CHOOSE j \in 1 .. Len(P[1]) :
                 Rotated(P[1], j)[1] = uv[1] /\ Rotated(P[1], j)[Len(P[1])] = uv[2]
        k == CHOOSE k \in 1 .. Len(Q[1]) :
                 Rotated(Q[1], k)[1] = uv[2] /\ Rotated(Q[1], k)[Len(Q[1])] = uv[1]
    IN  Rotated(P[1], j) \o SubSeq(Rotated(Q[1], k), 2, Len(Q[1]) - 1)

UnionHoles(P, Q) == {P[2][h] : h \in 1 .. Len(P[2])} \cup {Q[2][h] : h \in 1 .. Len(Q[2])}

SameHoles == UnionHoles(outcome.P1, outcome.P2) = {polygon[2][h] : h \in 1 .. Len(polygon[2])}

SameArea == PolyArea2(outcome.P1) + PolyArea2(outcome.P2) = PolyArea2(polygon)

(* C12 as stated: after a successful split the union of the two returned   *)
(* polygons has the area of the original and the same vertices in the same *)
(* cyclic order.                                                           *)
C12_RoundTripVertices ==
    SplitDone =>
        /\ SameArea /\ SameHoles
        /\ IsRotation(UnionExterior(outcome.P1, outcome.P2), polygon[1])

(* C12 amended: after a successful split the union of the two returned     *)
(* polygons has the area and the holes of the original; its exterior is    *)
(* that of the original with the vertices added where the split line meets *)
(* the inside of an edge, and is the original's once they are dropped.     *)
C12_RoundTripNoded ==
    SplitDone =>
        LET U == UnionExterior(outcome.P1, outcome.P2)
        IN  /\ SameArea /\ SameHoles
            /\ RingVertices(polygon[1]) \subseteq RingVertices(U)
            /\ \A v \in RingVertices(U) \ RingVertices(polygon[1]) :
                  /\ v \in {splitLine[1], splitLine[2]}
                  /\ \E k \in 1 .. Len(polygon[1]) :
                        StrictlyOnEdge(RingEdge(polygon[1], k)[1], RingEdge(polygon[1], k)[2], v)
            /\ IsRotation(SelectSeq(U, LAMBDA v : v \in RingVertices(polygon[1])), polygon[1])

(* a split whose line ends inside an edge of a polygon with holes *)
C12_Witness ==
    /\ SplitDone
    /\ polygon[2] # <<>>
    /\ Len(UnionExterior(outcome.P1, outcome.P2)) > Len(polygon[1])

(* the assignment test of the claim on the polygons of the latest commit *)
StraightIsBetter ==
    Max2(cost_func(oracle, result[1], sites[pair[1]]), cost_func(oracle, result[2], sites[pair[2]]))
        <= Max2(cost_func(oracle, result[2], sites[pair[1]]), cost_func(oracle, result[1], sites[pair[2]]))

(* C13: when the optimiser has succeeded on (start, N) with (P0, P1), the  *)
(* driver writes P0 to start and P1 to N if that pairing has the smaller   *)
(* or equal maximum cost, and P1 to start and P0 to N otherwise; in both   *)
(* cases both cells are written and the call does not fail.                *)
C13_AssignmentResolved ==
    pair # <<>> =>
        /\ err = "none"
        /\ IF StraightIsBetter
           THEN decomposition[pair[1]] = result[1] /\ decomposition[pair[2]] = result[2]
           ELSE decomposition[pair[1]] = result[2] /\ decomposition[pair[2]] = result[1]

(* the step enters a loop iteration of some invocation: a new frame, or   *)
(* the top frame moved on by one neighbour                                 *)
EntersIteration == stack' # <<>> /\ stack' # stack /\ Len(stack') >= Len(stack)

(* the iteration entered passes the test of line 153 and so calls          *)
(* compute_pairwise_optimal                                                *)
CallsOptimizer ==
    /\ EntersIteration
    /\ LET f == stack'[Len(stack')]
       IN  f.k <= Len(f.nbrs) /\ IsCheaper(f.nbrs[f.k][2], f.cost)

(* C14: a recursive call is made on the neighbour whose optimisation just  *)
(* failed, with the adjacency matrix unchanged and the caller's frame as   *)
(* it was, and the caller does not move to its next neighbour before that  *)
(* call has returned; once a re-cut has been committed in a top-level      *)
(* call, no further optimiser call or commit is made in that call, so a    *)
(* top-level call commits at most once.                                    *)
C14_StopOnFirstSuccess ==
    [][/\ Len(stack') = Len(stack) + 1 /\ stack # <<>> =>
            /\ ~Top.res.ok
            /\ stack'[Len(stack')].v = Top.nbrs[Top.k][1]
            /\ SubSeq(stack', 1, Len(stack)) = stack
            /\ adjacency_matrix' = adjacency_matrix
       /\ (Len(stack') = Len(stack) /\ stack' # stack) =>
            \/ ret = "False"
            \/ ~(IsCheaper(Top.nbrs[Top.k][2], Top.cost))
       /\ (pc = "drv" /\ commits >= 1) =>
            /\ ~CallsOptimizer
            /\ commits' = commits
            /\ decomposition' = decomposition]_vars

(* C15: every optimiser call of an invocation on cell c is made on a cell  *)
(* that the supplied matrix links to c and whose cost is strictly below    *)
(* the cost of c, the neighbours tried before it cost no more than it, and *)
(* a recursive call is only made into such a linked cheaper cell.          *)
C15_AscendingCheaperNeighbors ==
    [][/\ CallsOptimizer =>
            LET f == stack'[Len(stack')]
                c == f.v
                n == f.nbrs[f.k][1]
            IN  /\ adjacency_matrix'[c][n] = "True"
                /\ CellCost(oracle, decomposition', sites, n)
                     < CellCost(oracle, decomposition', sites, c)
                /\ \A j \in 1 .. (f.k - 1) :
                       CellCost(oracle, decomposition', sites, f.nbrs[j][1])
                         <= CellCost(oracle, decomposition', sites, n)
       /\ (Len(stack') = Len(stack) + 1 /\ stack # <<>>) =>
            LET n == stack'[Len(stack')].v
            IN  /\ adjacency_matrix[Top.v][n] = "True"
                /\ CellCost(oracle, decomposition, sites, n)
                     < CellCost(oracle, decomposition, sites, Top.v)]_vars

(* an invocation calls the optimiser on its second neighbour, after a      *)
(* first one that was cheaper than the start cell                          *)
C15_Witness ==
    /\ InLoop
    /\ Top.k = 2
    /\ Top.nbrs[1][2] < Top.cost
    /\ Top.nbrs[2][2] < Top.cost

(* the costs the invocations on the call chain computed for their start    *)
(* cells fall strictly from each caller to its callee                     *)
ChainDecreasing ==
    \A d \in 1 .. (Len(stack) - 1) : stack[d + 1].cost < stack[d].cost

NoCellTwice ==
    \A a, b \in 1 .. Len(stack) : a # b => stack[a].v # stack[b].v

(* what is left to do at nesting depth d: for a frame of the chain, the    *)
(* loop iterations it has not finished; for the depth just below the top   *)
(* frame, nothing once the callee there has returned; everything for a     *)
(* depth not entered yet                                                   *)
Rank(stk, r, d) ==
    IF d <= Len(stk) THEN Len(stk[d].nbrs) + 2 - stk[d].k
    ELSE IF d = Len(stk) + 1 /\ r # "none" THEN 0
    ELSE NumCells + 2

(* the work left after the step is below the work left before it, depths   *)
(* compared from the outermost invocation inwards                          *)
WorkDecreases ==
    \E d \in 1 .. (NumCells + 1) :
        /\ Rank(stack', ret', d) < Rank(stack, ret, d)
        /\ \A e \in 1 .. (d - 1) : Rank(stack', ret', e) = Rank(stack, ret, e)

(* C16: along the chain of nested invocations the start cells' costs fall  *)
(* strictly, no cell is the start cell of two invocations on the chain and *)
(* the chain is never longer than the number of cells; every step of a     *)
(* driver call either ends the call or lowers the work left, a tuple of    *)
(* NumCells + 1 numbers between 0 and NumCells + 2 compared from the       *)
(* outermost depth inwards, so that every call comes to an end.            *)
C16_Terminates ==
    /\ [](ChainDecreasing /\ NoCellTwice /\ Len(stack) <= NumCells)
    /\ [][pc = "drv" => (pc' \in {"returned", "failed"} \/ WorkDecreases)]_vars

(* a chain of three nested invocations *)
C16_Witness == pc = "drv" /\ Len(stack) = 3

(* the step builds the neighbour list of a new invocation from a row of    *)
(* the matrix                                                              *)
SelectsNeighbors == Len(stack') = Len(stack) + 1

(* C17: a round of run_iterations passes the driver the adjacency of the   *)
(* decomposition as it stands when the round starts, and once a re-cut has *)
(* been committed in a driver call, no invocation of that call builds a    *)
(* neighbour list or calls the optimiser on a neighbour while the matrix   *)
(* it holds differs from the adjacency of the decomposition as it now is.  *)
C17_NoStaleAdjacency ==
    [][/\ (pc = "ctl" /\ pc' = "drv") =>
            adjacency_matrix' = compute_adjacency(decomposition)
       /\ (pc = "drv" /\ commits >= 1 /\ (SelectsNeighbors \/ CallsOptimizer)) =>
            adjacency_matrix' = compute_adjacency(decomposition')]_vars

(* the scores of the candidates that split the union, taken as a set *)
SplittingScores(o, U, sA, sB) ==
    LET ss == SearchSpace(U)
    IN  {CandidateScore(o, SplitUnion(U, ss[x[1]], ss[x[2]]).polys, sA, sB) :
            x \in {y \in (1 .. Len(ss)) \X (1 .. Len(ss)) :
                       SplitUnion(U, ss[y[1]], ss[y[2]]).ok}}

SetMin(S) == CHOOSE m \in S : \A x \in S : m <= x

(* the optimiser has been called on two cells that meet along an edge *)
OptimizerRan ==
    /\ InLoop
    /\ IsCheaper(Top.nbrs[Top.k][2], Top.cost)
    /\ Touches(decomposition[Top.v], decomposition[Top.nbrs[Top.k][1]])
    /\ IntersectionType(decomposition[Top.v], decomposition[Top.nbrs[Top.k][1]]) = "LineString"

CandidateAt(U, idx) ==
    LET ss == SearchSpace(U)
    IN  SplitUnion(U, ss[((idx - 1) \div Len(ss)) + 1], ss[((idx - 1) % Len(ss)) + 1])

(* the indices of the splitting candidates whose score is the least one *)
LeastIndices(o, U, sA, sB) ==
    LET ss == SearchSpace(U)
        cand == [idx \in 1 .. (Len(ss) * Len(ss)) |->
                    SplitUnion(U, ss[((idx - 1) \div Len(ss)) + 1],
                                  ss[((idx - 1) % Len(ss)) + 1])]
        splitting == {idx \in DOMAIN cand : cand[idx].ok}
        score == [idx \in splitting |-> CandidateScore(o, cand[idx].polys, sA, sB)]
        least == SetMin({score[idx] : idx \in splitting})
    IN  {idx \in splitting : score[idx] = least}

SetMax(S) == CHOOSE m \in S : \A x \in S : m >= x

(* the index the search loop ends with *)
ChosenIndex(o, U, sA, sB) ==
    Search(o, U, SearchSpace(U), sA, sB, 1, NumSamples * NumSamples,
           [final |-> FloatMax, cand |-> 0]).cand

(* C19: when the optimiser returns a split, the chord it ends its search   *)
(* with is the one of greatest enumeration index among the splitting       *)
(* candidates of least score, and the split returned is the split along    *)
(* that chord.                                                             *)
C19_LastEqualWins ==
    (OptimizerRan /\ PairResult.ok) =>
        LET sA == sites[Top.v]
            sB == sites[Top.nbrs[Top.k][1]]
            U == PolygonUnion(decomposition[Top.v], decomposition[Top.nbrs[Top.k][1]])
            last == SetMax(LeastIndices(oracle, U, sA, sB))
        IN  /\ ChosenIndex(oracle, U, sA, sB) = last
            /\ PairResult = CandidateAt(U, last)

(* a split was returned where an earlier candidate of the same least score *)
(* stands for a different cut                                              *)
C19_Witness ==
    /\ OptimizerRan
    /\ PairResult.ok
    /\ LET sA == sites[Top.v]
           sB == sites[Top.nbrs[Top.k][1]]
           U == PolygonUnion(decomposition[Top.v], decomposition[Top.nbrs[Top.k][1]])
       IN  \E idx \in LeastIndices(oracle, U, sA, sB) :
               CandidateAt(U, idx).polys # PairResult.polys

(* the rounds of the present run in which the driver has been invoked: the *)
(* finished ones and one more while a call is in progress or has raised    *)
DriverInvocations ==
    i + (IF pc \in {"drv", "returned"} \/ err = "NameError" THEN 1 ELSE 0)

(* C20: when a run of run_iterations has ended, the driver has been        *)
(* invoked num_iterations times, rounds without a cut included; and every  *)
(* round invokes it on a cell whose cost is the largest of the             *)
(* decomposition as it stands when the round starts.                       *)
C20_ExactlyIterationCount ==
    /\ [](mode = "run" /\ pc \in {"done", "failed"} => DriverInvocations = num_iterations)
    /\ [][(pc = "ctl" /\ pc' = "drv") =>
            \A c \in CellIds :
                CellCost(oracle, decomposition, sites, c)
                  <= CellCost(oracle, decomposition, sites, stack'[1].v)]_vars

(* the cells a frame's neighbour list holds *)
ListedCells(f) == {f.nbrs[j][1] : j \in 1 .. Len(f.nbrs)}

(* C21: no visited set is kept: when the driver recurses into a cell that  *)
(* has already been the start cell of an invocation of the same top-level  *)
(* call, the new invocation starts on that cell like any other, with the   *)
(* neighbour list of every cell its matrix row links.                      *)
C21_RevisitAllowed ==
    [][(Len(stack') = Len(stack) + 1 /\ stack # <<>>
            /\ VisitedBefore(Top.nbrs[Top.k][1])) =>
         LET f == stack'[Len(stack')]
         IN  /\ f.v = Top.nbrs[Top.k][1]
             /\ f.k = 1
             /\ ListedCells(f) = {c \in CellIds : adjacency_matrix[f.v][c] # "None"}]_vars

(* ChiOptimizer is in an invocation on a cell that an earlier invocation   *)
(* of the same top-level call, reached from another frame's loop, started  *)
(* on                                                                      *)
C21_Witness ==
    /\ impl = "chi" /\ pc = "drv" /\ ret = "none"
    /\ Len(stack) >= 2
    /\ VisitedBefore(Top.v)
(* the conditions under which the optimiser is said to give no result:     *)
(* an empty polygon or site, an invalid or non-simple polygon, polygons    *)
(* that do not touch, an intersection that is not one line string, a union *)
(* that is not one valid simple polygon                                    *)
PairRejected(A, B, sA, sB) ==
    IF IsEmpty(A) \/ IsEmpty(B) \/ IsEmpty(sA) \/ IsEmpty(sB) THEN TRUE
    ELSE \/ ~IsValidPoly(A) \/ ~IsValidPoly(B)
         \/ ~IsSimplePoly(A) \/ ~IsSimplePoly(B)
         \/ ~Touches(A, B)
         \/ IntersectionType(A, B) # "LineString"
         \/ ~(/\ UnionKind(A, B) = "Polygon"
               /\ IsValidPoly(PolygonUnion(A, B))
               /\ IsSimplePoly(PolygonUnion(A, B)))

(* the pair of the loop iteration a frame stands at is such a pair *)
FrameRejected(f) ==
    /\ f.k <= Len(f.nbrs)
    /\ IsCheaper(f.nbrs[f.k][2], f.cost)
    /\ PairRejected(decomposition[f.v], decomposition[f.nbrs[f.k][1]],
                    sites[f.v], sites[f.nbrs[f.k][1]])

(* C22: compute_pairwise_optimal called with an empty polygon or site, an  *)
(* invalid or non-simple polygon, polygons that do not touch or do not     *)
(* meet in one line string, or a union that is not one valid simple        *)
(* polygon returns no result and has evaluated no cut candidate; and when  *)
(* ChiOptimizer's dft_recursion meets such a pair in its loop, its next    *)
(* step leaves every cell as it is and enters the invocation on the        *)
(* neighbour.                                                              *)
C22_RejectedPairRecurses ==
    /\ [](pc = "paired" /\ PairRejected(args.polygon_a, args.polygon_b,
                                        args.robot_a_init_pos, args.robot_b_init_pos)
            => answer = [res |-> NoResult, evaluated |-> 0])
    /\ [][(impl = "chi" /\ InLoop /\ FrameRejected(Top)) =>
            /\ ~PairResult.ok
            /\ decomposition' = decomposition
            /\ Len(stack') = Len(stack) + 1
            /\ stack'[Len(stack')].v = Top.nbrs[Top.k][1]
            /\ stack'[Len(stack')].k = 1]_vars

C22_Witness ==
    /\ impl = "chi" /\ pc = "drv" /\ ret = "none"
    /\ Len(stack) >= 2
    /\ Top.k = 1
    /\ FrameRejected(stack[Len(stack) - 1])
    /\ Top.v = stack[Len(stack) - 1].nbrs[stack[Len(stack) - 1].k][1]
    /\ decomposition = atCall

(* polygon_split has got past both validity checks and cuts the exterior *)
MasksBuilt ==
    /\ op = "split" /\ called
    /\ inputs_valid(polygon, splitLine)
    /\ parameters_valid(RingIntersection(polygon[1], splitLine[1], splitLine[2]),
                        polygon, splitLine)

(* the two points where the split line meets the exterior *)
CutPoints ==
    {PointAt(splitLine[1], splitLine[2], t) :
        t \in RingIntersection(polygon[1], splitLine[1], splitLine[2]).pts}

SplitPieces == SplitBoundary(polygon[1], CutPoints)

(* C23: when the split line meets the exterior in exactly two points and   *)
(* polygon_split cuts the exterior, each of the two mask rings holds both  *)
(* points, every vertex of the exterior is on one of the masks, and the    *)
(* masks have no point in common but the two; this is so with two pieces   *)
(* and with three, whose first and last are joined; with three pieces      *)
(* whose first start is not the last end the result is empty; and the      *)
(* exteriors of the polygons returned are the two masks.                   *)
C23_MasksShareOnlyCutPoints ==
    MasksBuilt =>
        LET mask1 == RingVertices(Line1(SplitPieces))
            mask2 == RingVertices(SplitPieces[2])
        IN  /\ Cardinality(CutPoints) = 2
            /\ Len(SplitPieces) \in {2, 3}
            /\ CutPoints \subseteq mask1
            /\ CutPoints \subseteq mask2
            /\ RingVertices(polygon[1]) \subseteq mask1 \cup mask2
            /\ mask1 \cap mask2 = CutPoints
            /\ (/\ Len(SplitPieces) = 3
                /\ SplitPieces[1][1] # SplitPieces[3][Len(SplitPieces[3])])
                    => outcome = EmptyResult
            /\ outcome.kind = "pair" =>
                  /\ RingVertices(outcome.P1[1]) = mask1
                  /\ RingVertices(outcome.P2[1]) = mask2

(* the exterior fell into three pieces, one cut point inside an edge, and  *)
(* the split succeeded                                                     *)
C23_Witness ==
    /\ MasksBuilt
    /\ Len(SplitPieces) = 3
    /\ ~(CutPoints \subseteq RingVertices(polygon[1]))
    /\ outcome.kind = "pair"

(* the holes of a returned polygon that have the vertices of a given hole *)
HolesLike(P, hole) == {k \in 1 .. Len(P[2]) : RingVertices(P[2][k]) = RingVertices(hole)}

(* the hole lies inside the exterior of a returned polygon *)
HoleWithin(P, hole) == \A v \in RingVertices(hole) : StrictlyInside(P[1], 1, v)

(* C24: after a successful split every hole of the polygon that was split  *)
(* is, with the same vertices, a hole of exactly one of the two polygons   *)
(* returned, once, and that polygon's exterior contains it; the two        *)
(* polygons have no other holes.                                           *)
C24_HolesInherited ==
    SplitDone =>
        /\ Len(outcome.P1[2]) + Len(outcome.P2[2]) = Len(polygon[2])
        /\ \A h \in 1 .. Len(polygon[2]) :
              LET in1 == HolesLike(outcome.P1, polygon[2][h])
                  in2 == HolesLike(outcome.P2, polygon[2][h])
              IN  /\ Cardinality(in1) + Cardinality(in2) = 1
                  /\ in1 # {} => HoleWithin(outcome.P1, polygon[2][h])
                  /\ in2 # {} => HoleWithin(outcome.P2, polygon[2][h])

(* a polygon with two holes has been split between them *)
C24_Witness ==
    /\ SplitDone
    /\ Len(polygon[2]) = 2
    /\ Len(outcome.P1[2]) = 1 /\ Len(outcome.P2[2]) = 1
    /\ outcome.P1[2] # outcome.P2[2]

(* a ring of a canonical polygon is one of the input's rings, read in the  *)
(* given direction or backwards, without its closing point                 *)
RingOf(ring, coords) == ring = DropLast(coords) \/ ring = DropLast(Reverse(coords))

Converted == op \in {"convert", "to_canonical"} /\ called /\ geom.type = "Polygon"

(* C25: the canonical form of a shapely polygon, from convert_to_canonical *)
(* and from poly_shapely_to_canonical alike, has the polygon's exterior    *)
(* counter-clockwise, one ring per hole made of that hole's coordinates    *)
(* clockwise, and no ring that ends with its first point.                  *)
C25_CanonicalForm ==
    Converted =>
        LET poly == converted.poly
        IN  /\ converted.kind = "ok"
            /\ RingOf(poly[1], geom.exterior)
            /\ IsCcw(poly[1])
            /\ Len(poly[2]) = Len(geom.interiors)
            /\ \A h \in 1 .. Len(poly[2]) :
                  /\ RingOf(poly[2][h], geom.interiors[h])
                  /\ ~IsCcw(poly[2][h])

====
